---- MODULE Spec2Model ----
(***************************************************************************)
(* Otus web console (voip-simulator/console/app.py): the request/response  *)
(* correlation of api_command and _handle_response, the fanout of packets  *)
(* and responses to the SSE subscriber queues, and the per-channel ring    *)
(* buffer.                                                                 *)
(*                                                                         *)
(* Threads of the program and how they appear here:                        *)
(*   - one Flask request thread per api_command call (app.run threaded);   *)
(*     a call is identified by the request_id it draws (uuid4, unique);    *)
(*   - the "resp-consumer" thread running _handle_response per message;    *)
(*   - one "pkt-<channel>" thread running _handle_packet per message;      *)
(*   - one request thread per open SSE stream (api_stream,                 *)
(*     api_stream_responses) running generate().                           *)
(* A step is one atomic region of the code: a critical section of          *)
(* pending_lock, one queue operation, or one iteration of a loop under     *)
(* sse_lock.                                                               *)
(***************************************************************************)
EXTENDS Integers, Sequences, FiniteSets, TLC

\* ------------------------------------------------------------------ bounds
\* api_command calls issued in a behaviour (each draws a fresh request_id)
MaxRequests == 1
\* messages the response consumer receives in a behaviour
MaxResponses == 2
\* messages the packet consumers receive in a behaviour (all channels)
MaxPackets == 4
\* of these, the messages received while the response consumer and the
\* response streams run as well (SpecHub)
HubPackets == 3
\* SSE streams opened in a behaviour
MaxStreams == 2
\* of these, the streams opened while commands are in flight (SpecCmd)
CmdStreams == 1
\* send_command calls made in a behaviour
MaxSends == 2
\* connection-level faults injected in a behaviour (all supervisor loops)
MaxFaults == 2
\* messages the consumers' polls return in a behaviour (all loops)
MaxMessages == 3
\* messages one poll returns at most
MaxBatch == 2

\* ------------------------------------------------------- program constants
\* MAX_QUEUE_SIZE (500 in the source), scaled down
MAX_QUEUE_SIZE == 2
\* queue.Queue(maxsize=1): the waiter's single slot
RESP_QUEUE_MAXSIZE == 1
\* queue.Queue(maxsize=200) of api_stream, scaled down
STREAM_QUEUE_MAXSIZE == 2
\* queue.Queue(maxsize=100) of api_stream_responses, scaled down
RESPONSE_STREAM_QUEUE_MAXSIZE == 1
\* RESPONSE_TIMEOUT_S (30 s), in clock ticks of 15 s
RESPONSE_TIMEOUT_S == 2
\* the seconds-or-milliseconds threshold 100_000_000_000, scaled down
SECONDS_THRESHOLD == 100
\* ts_int *= 1000
MS_PER_SECOND == 1000

Channels == {"uas", "uac"}
COMMAND_TOPICS == [t \in Channels |-> IF t = "uas" THEN "otus-uas-commands"
                                                  ELSE "otus-uac-commands"]
\* the order of COMMAND_TOPICS.values() (dict insertion order)
CommandTopicOrder == <<"otus-uas-commands", "otus-uac-commands">>
Topics == {COMMAND_TOPICS[t] : t \in Channels}
\* one allowed command stands for the eight of VALID_COMMANDS
VALID_COMMANDS == {"task_create", "task_list"}

\* the request bodies the model draws from: targeted and wildcard, waited
\* and not, a target that is no node group, a command off the allow-list
Bodies ==
    {[target |-> t, command |-> "task_create", wait |-> w] :
        t \in {"uas", "uac", "*"}, w \in BOOLEAN}
    \cup {[target |-> "bogus", command |-> "task_create", wait |-> TRUE],
          [target |-> "uas", command |-> "reboot", wait |-> TRUE]}

Calls == 1..MaxRequests
Streams == 1..MaxStreams
None == "None"
\* request_id values of a response that no call of this console owns:
\* another console's id (or "", a non-dict message), and a JSON array or
\* object, which Python cannot hash
FOREIGN == MaxRequests + 1
UNHASHABLE == MaxRequests + 2

VARIABLES
    call,                       \* per api_command call: its locals and position
    result,                     \* per call: the HTTP response it returned
    pending_responses,          \* request_ids with a registered waiter
    resp_queue,                 \* per call: the waiter's single-slot queue
    waited,                     \* per call: ticks spent in resp_queue.get
    published,                  \* per command topic: request_ids sent to it
    rthread,                    \* resp-consumer: position in _handle_response
    nresp,                      \* response messages received so far
    handler_errors,             \* exceptions _consumer_loop caught and logged
    matched,                    \* per call: the envelope put in its slot
    pthread,                    \* pkt-<channel>: position in _handle_packet
    npkt,                       \* packet messages received so far
    packet_queues,              \* per channel: the ring buffer
    sse_subscribers,            \* per channel: list of subscriber queues
    response_sse_subscribers,   \* list of subscriber queues of the responses
    sse_lock,                   \* holder of sse_lock, or None
    stream,                     \* per SSE stream: feed, position, last thing sent
    sub_queue,                  \* per SSE stream: its queue
    yielded,                    \* per SSE stream: the items it sent as data
    publog,                     \* per feed: the items published, in order
    window,                     \* per SSE stream: the publog positions between
                                \* which it was registered, and what removed it
    send_calls,                 \* the send_command calls made, and how each ended
    ingest,                     \* _handle_packet up to the fanout: its locals
    loop,                       \* per consumer thread: the supervisor loop's
                                \* position, its consumer, the batch in hand
    polled,                     \* per consumer thread: the messages poll returned
    dispatched                  \* per consumer thread: the messages given to
                                \* on_message

cmdVars == <<call, result, pending_responses, resp_queue, waited, published,
             matched>>
respVars == <<rthread, nresp, handler_errors>>
pktVars == <<pthread, npkt, packet_queues>>
hubVars == <<sse_subscribers, response_sse_subscribers, sse_lock, stream,
             sub_queue, yielded, publog, window>>
\* the state of send_command, of the timestamp normalisation and of the
\* consumer supervisor loops
extVars == <<send_calls, ingest, loop, polled, dispatched>>
vars == <<cmdVars, respVars, pktVars, hubVars, extVars>>

\* ----------------------------------------------------------------- values
NoEnv == [seq |-> 0, request_id |-> FOREIGN, error |-> FALSE]
NoPacket == [seq |-> 0, channel |-> None]
NoResult == [status |-> 0, ok |-> FALSE, request_id |-> 0, response |-> NoEnv,
             error |-> None]
NoMatch == [env |-> NoEnv, at |-> None]
\* a consumer thread between two messages; full is the set of queues the
\* current publish found full
IdleThread(item) == [pc |-> "idle", item |-> item, waiter |-> 0, idx |-> 0,
                     dead |-> <<>>, full |-> {}]

Range(s) == {s[i] : i \in 1..Len(s)}
\* mutant of Without: the dead queues are collected but not removed
Without_NothingRemoved(list, dead) == list

\* list.remove(x) for each x of dead: the list without the elements of dead
RECURSIVE Without(_, _)
Without(list, dead) ==
    IF list = <<>> THEN <<>>
    ELSE IF Head(list) \in dead THEN Without(Tail(list), dead)
         ELSE <<Head(list)>> \o Without(Tail(list), dead)

\* ------------------------------------------------------- Python values
\* a JSON value as Python holds it: its type, for a finite number ten times
\* its value (one decimal place is kept), for a string or a float that is
\* not finite its text
PyNone == [type |-> "NoneType", v10 |-> 0, text |-> ""]
PyInt(n) == [type |-> "int", v10 |-> 10 * n, text |-> ""]
PyFloat(v10) == [type |-> "float", v10 |-> v10, text |-> ""]
PyFloatSpecial(name) == [type |-> "float", v10 |-> 0, text |-> name]
PyStr(text) == [type |-> "str", v10 |-> 0, text |-> text]
PyOther(type) == [type |-> type, v10 |-> 0, text |-> ""]

\* a Python float, or the ValueError float() raised
Finite(v10) == [kind |-> "finite", v10 |-> v10]
Inf == [kind |-> "inf", v10 |-> 0]
NaN == [kind |-> "nan", v10 |-> 0]
FloatValueError == [kind |-> "ValueError", v10 |-> 0]

\* float(text) of the strings the model uses: surrounding blanks are
\* stripped, an exponent is applied, a literal beyond the float range and
\* "inf" give infinity, anything that is no float literal is a ValueError
ParseFloat(text) ==
    CASE text = "17" -> Finite(170)
      [] text = "17.5" -> Finite(175)
      [] text = " 12 " -> Finite(120)
      [] text = "1e2" -> Finite(1000)
      [] text = "-5" -> Finite(-50)
      [] text = "inf" -> Inf
      [] text = "-inf" -> Inf
      [] text = "1e999" -> Inf
      [] text = "nan" -> NaN
      [] OTHER -> FloatValueError

\* float(str(x)): str of an int or a float is a literal float() reads back
\* (an int beyond the float range reads back as infinity); str of a bool,
\* a list or a dict is no float literal
FloatOfStr(x) ==
    CASE x.type = "int" -> IF x.text = "huge" THEN Inf ELSE Finite(x.v10)
      [] x.type = "float" ->
            IF x.text = "" THEN Finite(x.v10)
            ELSE IF x.text = "nan" THEN NaN ELSE Inf
      [] x.type = "str" -> ParseFloat(x.text)
      [] OTHER -> FloatValueError

\* int(f): truncation towards zero; ValueError for nan, OverflowError for
\* an infinity
IntOfFloat(f) ==
    CASE f.kind = "finite" ->
            [raised |-> None,
             value |-> IF f.v10 >= 0 THEN f.v10 \div 10 ELSE -((-f.v10) \div 10)]
      [] f.kind = "nan" -> [raised |-> "ValueError", value |-> 0]
      [] f.kind = "inf" -> [raised |-> "OverflowError", value |-> 0]
      [] OTHER -> [raised |-> "ValueError", value |-> 0]

\* the timestamp part of _handle_packet: the value stored in
\* packet["timestamp"], or the exception that leaves the handler
NormalizeTimestamp(ts_raw, received_at) ==
    IF ts_raw.type # "NoneType"
    THEN LET ts_int == IntOfFloat(FloatOfStr(ts_raw))
         IN  IF ts_int.raised = None
             THEN [raised |-> None,
                   timestamp |-> IF ts_int.value < SECONDS_THRESHOLD
                                 THEN ts_int.value * MS_PER_SECOND
                                 ELSE ts_int.value]
             ELSE IF ts_int.raised \in {"ValueError", "TypeError"}
             THEN [raised |-> None, timestamp |-> received_at]
             ELSE [raised |-> ts_int.raised, timestamp |-> 0]
    ELSE [raised |-> None, timestamp |-> received_at]

\* the timestamp values of the messages the model receives
TimestampInputs ==
    {PyNone, PyOther("bool"), PyOther("list")}
    \cup {PyInt(n) : n \in {-200, -5, 0, 17, 99, 100, 1700}}
    \cup {[PyInt(0) EXCEPT !.text = "huge"]}
    \cup {PyFloat(v) : v \in {179, 999, 1005}}
    \cup {PyFloatSpecial(t) : t \in {"inf", "-inf", "nan"}}
    \cup {PyStr(t) : t \in {"17", "17.5", " 12 ", "1e2", "-5", "inf", "1e999",
                              "nan", "abc", ""}}

\* int(time.time() * 1000) at the receipt, scaled like the timestamps
ReceiptTimes == {1701, 1702}

\* _handle_packet between two messages
IdleIngest == [pc |-> "idle", ts_raw |-> PyNone, labels |-> "absent",
               header_labels |-> FALSE, received_at |-> 0, timestamp |-> 0,
               raised |-> None]

\* ------------------------------------------------- supervisor loop state
\* the threads start_background_consumers starts
Loops == {"pkt-uas", "pkt-uac", "resp-consumer"}
\* a thread at the top of `while True:` (consumer = None), no fault so far
NewLoop == [pc |-> "connecting", consumer |-> None, batch |-> <<>>,
            faults |-> 0, logged |-> 0]

Init ==
    /\ call = [c \in Calls |-> [pc |-> "new", target |-> None,
                                command |-> None, wait |-> FALSE]]
    /\ result = [c \in Calls |-> NoResult]
    /\ pending_responses = {}
    /\ resp_queue = [c \in Calls |-> <<>>]
    /\ waited = [c \in Calls |-> 0]
    /\ published = [t \in Topics |-> <<>>]
    /\ matched = [c \in Calls |-> NoMatch]
    /\ rthread = IdleThread(NoEnv)
    /\ nresp = 0
    /\ handler_errors = 0
    /\ pthread = [ch \in Channels |-> IdleThread(NoPacket)]
    /\ npkt = 0
    /\ packet_queues = [ch \in Channels |-> <<>>]
    /\ sse_subscribers = [ch \in Channels |-> <<>>]
    /\ response_sse_subscribers = <<>>
    /\ sse_lock = None
    /\ stream = [s \in Streams |-> [pc |-> "new", feed |-> None, last |-> None]]
    /\ sub_queue = [s \in Streams |-> <<>>]
    /\ yielded = [s \in Streams |-> <<>>]
    /\ publog = [f \in Channels \cup {"responses"} |-> <<>>]
    /\ window = [s \in Streams |-> [from |-> 0, to |-> 0, by |-> None]]
    /\ send_calls = <<>>
    /\ ingest = IdleIngest
    /\ loop = [l \in Loops |-> NewLoop]
    /\ polled = [l \in Loops |-> <<>>]
    /\ dispatched = [l \in Loops |-> <<>>]

\* ------------------------------------------------------------ api_command
\* mutant of ShouldRegister: the wildcard test is forgotten
ShouldRegister_NoWildcardTest(wait, target) == wait

\* mutant of ShouldRegister: the registration is not made before the send
ShouldRegister_NotBeforeSend(wait, target) == FALSE

\* if wait and target != "*": the waiter is registered
ShouldRegister(wait, target) == wait /\ target # "*"

\* the topics api_command and send_command send to, in order:
\* COMMAND_TOPICS.get(target, COMMAND_TOPICS["uas"]) for a single target
SendTopics(target) ==
    IF target = "*" THEN CommandTopicOrder
    ELSE IF target \in DOMAIN COMMAND_TOPICS THEN <<COMMAND_TOPICS[target]>>
    ELSE <<COMMAND_TOPICS["uas"]>>

\* jsonify({...}) of the four return statements
BadRequest(msg) == [NoResult EXCEPT !.status = 400, !.error = msg]
DispatchError(c) == [NoResult EXCEPT !.status = 500, !.error = "KafkaError"]
Accepted(c) == [NoResult EXCEPT !.status = 200, !.ok = TRUE, !.request_id = c]
\* mutant of Correlated: a node-reported error is turned into a failure
Correlated_ErrorAsFailure(c, resp) ==
    IF resp.error
    THEN [NoResult EXCEPT !.status = 500, !.request_id = c, !.error = "node error"]
    ELSE [status |-> 200, ok |-> TRUE, request_id |-> c, response |-> resp,
          error |-> None]
Correlated(c, resp) ==
    [status |-> 200, ok |-> ~resp.error, request_id |-> c, response |-> resp,
     error |-> None]
TimedOut(c) ==
    [NoResult EXCEPT !.status = 504, !.request_id = c,
                     !.error = "timeout waiting for response"]

\* body parsing, validation, request_id, waiter registration
Start(c, target, command, wait) ==
    /\ call[c].pc = "new"
    /\ IF c = 1 THEN TRUE ELSE call[c - 1].pc # "new"
    /\ IF target \notin {"uas", "uac", "*"}
       THEN /\ call' = [call EXCEPT ![c] = [pc |-> "done", target |-> target,
                                            command |-> command, wait |-> wait]]
            /\ result' = [result EXCEPT ![c] = BadRequest("invalid target")]
            /\ UNCHANGED pending_responses
       ELSE IF command \notin VALID_COMMANDS
       THEN /\ call' = [call EXCEPT ![c] = [pc |-> "done", target |-> target,
                                            command |-> command, wait |-> wait]]
            /\ result' = [result EXCEPT ![c] = BadRequest("unknown command")]
            /\ UNCHANGED pending_responses
       ELSE /\ call' = [call EXCEPT ![c] = [pc |-> "send", target |-> target,
                                            command |-> command, wait |-> wait]]
            /\ pending_responses' =
                   IF ShouldRegister(wait, target)
                   THEN pending_responses \cup {c} ELSE pending_responses
            /\ UNCHANGED result
    /\ UNCHANGED <<resp_queue, waited, published, matched>>
    /\ UNCHANGED <<respVars, pktVars, hubVars>>
    /\ UNCHANGED extVars

\* the try block: send to each topic, flush. A KafkaError may be raised
\* before any send, between two sends, or by flush after every send; n is
\* the number of topics the envelope reached
Send(c, n, raised) ==
    LET topics == SendTopics(call[c].target)
        msg == [request_id |-> c, key |-> call[c].target,
                command |-> call[c].command]
    IN  /\ call[c].pc = "send"
        /\ n \in 0..Len(topics)
        /\ ~raised => n = Len(topics)
        /\ published' = [t \in Topics |->
                            IF \E i \in 1..n : topics[i] = t
                            THEN Append(published[t], msg) ELSE published[t]]
        /\ IF raised
           THEN /\ call' = [call EXCEPT ![c].pc = "except"]
                /\ UNCHANGED result
           ELSE IF ~call[c].wait \/ call[c].target = "*"
           THEN /\ call' = [call EXCEPT ![c].pc = "done"]
                /\ result' = [result EXCEPT ![c] = Accepted(c)]
           ELSE /\ call' = [call EXCEPT ![c].pc = "wait"]
                /\ UNCHANGED result
        /\ UNCHANGED <<pending_responses, resp_queue, waited, matched>>
        /\ UNCHANGED <<respVars, pktVars, hubVars>>
        /\ UNCHANGED extVars

\* the response Flask makes of an exception that leaves api_command
Unhandled(c) == [NoResult EXCEPT !.status = 500, !.error = "Exception"]

\* the try block raises an exception that is no KafkaError (raised by
\* get_producer, send or flush after the envelope reached n topics): the
\* except KafkaError clause does not apply, the exception leaves
\* api_command and nothing more of it runs
SendRaises(c, n) ==
    LET topics == SendTopics(call[c].target)
        msg == [request_id |-> c, key |-> call[c].target,
                command |-> call[c].command]
    IN  /\ call[c].pc = "send"
        /\ n \in 0..Len(topics)
        /\ published' = [t \in Topics |->
                            IF \E i \in 1..n : topics[i] = t
                            THEN Append(published[t], msg) ELSE published[t]]
        /\ call' = [call EXCEPT ![c].pc = "done"]
        /\ result' = [result EXCEPT ![c] = Unhandled(c)]
        /\ UNCHANGED <<pending_responses, resp_queue, waited, matched>>
        /\ UNCHANGED <<respVars, pktVars, hubVars>>
        /\ UNCHANGED extVars

\* mutant of UnregisterOnError: the except branch only returns the error
UnregisterOnError_Leak(c) == pending_responses

\* with pending_lock: pending_responses.pop(request_id, None)
UnregisterOnError(c) == pending_responses \ {c}

\* except KafkaError: unregister the waiter, return 500
ExceptPop(c) ==
    /\ call[c].pc = "except"
    /\ pending_responses' = UnregisterOnError(c)
    /\ call' = [call EXCEPT ![c].pc = "done"]
    /\ result' = [result EXCEPT ![c] = DispatchError(c)]
    /\ UNCHANGED <<resp_queue, waited, published, matched>>
    /\ UNCHANGED <<respVars, pktVars, hubVars>>
    /\ UNCHANGED extVars

\* resp_queue.get(timeout=...) returns the item in the slot
GetReturn(c) ==
    /\ call[c].pc = "wait"
    /\ resp_queue[c] # <<>>
    /\ resp_queue' = [resp_queue EXCEPT ![c] = Tail(@)]
    /\ call' = [call EXCEPT ![c].pc = "done"]
    /\ result' = [result EXCEPT ![c] = Correlated(c, Head(resp_queue[c]))]
    /\ UNCHANGED <<pending_responses, waited, published, matched>>
    /\ UNCHANGED <<respVars, pktVars, hubVars>>
    /\ UNCHANGED extVars

\* resp_queue.get raises queue.Empty: the slot is empty at the deadline
GetEmpty(c) ==
    /\ call[c].pc = "wait"
    /\ resp_queue[c] = <<>>
    /\ waited[c] >= RESPONSE_TIMEOUT_S
    /\ call' = [call EXCEPT ![c].pc = "timeout"]
    /\ UNCHANGED <<result, pending_responses, resp_queue, waited, published,
                   matched>>
    /\ UNCHANGED <<respVars, pktVars, hubVars>>
    /\ UNCHANGED extVars

\* mutant of UnregisterOnTimeout: the timeout branch only returns the error
UnregisterOnTimeout_Leak(c) == pending_responses

\* with pending_lock: pending_responses.pop(request_id, None)
UnregisterOnTimeout(c) == pending_responses \ {c}

\* except queue.Empty: unregister the waiter, return 504
TimeoutPop(c) ==
    /\ call[c].pc = "timeout"
    /\ pending_responses' = UnregisterOnTimeout(c)
    /\ call' = [call EXCEPT ![c].pc = "done"]
    /\ result' = [result EXCEPT ![c] = TimedOut(c)]
    /\ UNCHANGED <<resp_queue, waited, published, matched>>
    /\ UNCHANGED <<respVars, pktVars, hubVars>>
    /\ UNCHANGED extVars

\* the clock advances by one tick for every call blocked in get
Tick ==
    /\ \E c \in Calls : call[c].pc = "wait" /\ waited[c] < RESPONSE_TIMEOUT_S
    /\ waited' = [c \in Calls |->
                     IF call[c].pc = "wait" /\ waited[c] < RESPONSE_TIMEOUT_S
                     THEN waited[c] + 1 ELSE waited[c]]
    /\ UNCHANGED <<call, result, pending_responses, resp_queue, published,
                   matched>>
    /\ UNCHANGED <<respVars, pktVars, hubVars>>
    /\ UNCHANGED extVars

\* ----------------------------------------------------------- send_command
\* the arguments the model calls send_command with
SendArgs ==
    {[target |-> "uas", command |-> "task_list"],
     [target |-> "*", command |-> "task_list"],
     [target |-> "uac", command |-> "reboot"],
     [target |-> "bogus", command |-> "task_list"]}

\* send_command(target, command): request_id = uuid4, send to the topic (or
\* to each topic for "*"), flush, return request_id. No check of target or
\* command is made and no waiter is registered. A KafkaError of send or
\* flush leaves the function after the envelope reached n topics. The
\* request_id is one no api_command call owns.
SendCommand(target, command, n, raised) ==
    LET topics == SendTopics(target)
        msg == [request_id |-> FOREIGN, key |-> target, command |-> command]
    IN  /\ Len(send_calls) < MaxSends
        /\ n \in 0..Len(topics)
        /\ ~raised => n = Len(topics)
        /\ published' = [t \in Topics |->
                            IF \E i \in 1..n : topics[i] = t
                            THEN Append(published[t], msg) ELSE published[t]]
        /\ send_calls' = Append(send_calls,
                                [target |-> target, command |-> command,
                                 returned |-> IF raised THEN None ELSE "request_id"])
        /\ UNCHANGED <<call, result, pending_responses, resp_queue, waited,
                       matched>>
        /\ UNCHANGED <<respVars, pktVars, hubVars>>
        /\ UNCHANGED <<ingest, loop, polled, dispatched>>

\* ------------------------------------------------- fanout to SSE queues
Feeds == Channels \cup {"responses"}
SubscribersOf(feed) ==
    IF feed = "responses" THEN response_sse_subscribers
    ELSE sse_subscribers[feed]
\* queue.Queue(maxsize=...) of the stream's endpoint
QueueMaxsize(feed) ==
    IF feed = "responses" THEN RESPONSE_STREAM_QUEUE_MAXSIZE
    ELSE STREAM_QUEUE_MAXSIZE

\* with sse_lock: dead = []  (the publishing thread takes the lock)
FanoutLock(me, feed, item) ==
    /\ sse_lock = None
    /\ sse_lock' = me
    /\ publog' = [publog EXCEPT ![feed] = Append(@, item)]
    /\ UNCHANGED <<sse_subscribers, response_sse_subscribers, stream,
                   sub_queue, yielded, window>>

\* whether q.put_nowait raises queue.Full
IsFull(q, feed) == Len(sub_queue[q]) >= QueueMaxsize(feed)

\* mutant of PutNowait: queue.Full is passed over, the queue is not dead
PutNowait_FullIgnored(th, q, feed) ==
    IF IsFull(q, feed)
    THEN [th EXCEPT !.idx = @ + 1, !.full = @ \cup {q}]
    ELSE [th EXCEPT !.idx = @ + 1]

\* one iteration of `for q in subscribers`, on thread record th:
\* q.put_nowait(item), and on queue.Full dead.append(q)
PutNowait(th, q, feed) ==
    IF IsFull(q, feed)
    THEN [th EXCEPT !.idx = @ + 1, !.dead = Append(@, q), !.full = @ \cup {q}]
    ELSE [th EXCEPT !.idx = @ + 1]
Enqueue(q, item, feed) ==
    IF IsFull(q, feed) THEN sub_queue
    ELSE [sub_queue EXCEPT ![q] = Append(@, item)]

\* for q in dead: subscribers.remove(q); the lock is released
RemoveDead(feed, dead) ==
    /\ IF feed = "responses"
       THEN /\ response_sse_subscribers' =
                   Without(response_sse_subscribers, Range(dead))
            /\ UNCHANGED sse_subscribers
       ELSE /\ sse_subscribers' =
                   [sse_subscribers EXCEPT ![feed] = Without(@, Range(dead))]
            /\ UNCHANGED response_sse_subscribers
    /\ window' = [s \in Streams |->
                     IF s \in Range(dead) /\ s \in Range(SubscribersOf(feed))
                     THEN [window[s] EXCEPT !.to = Len(publog[feed]),
                                            !.by = "publish"]
                     ELSE window[s]]
    /\ sse_lock' = None
    /\ UNCHANGED <<stream, sub_queue, yielded, publog>>

\* ------------------------------------------------------- _handle_response
\* request_ids a node can answer: those of the commands published
PublishedIds == UNION {{published[t][i].request_id : i \in 1..Len(published[t])}
                       : t \in Topics}

\* pending_responses.pop(rid, None) raises TypeError for an unhashable rid
\* (CPython's dict.pop returns the default before hashing when the dict is
\* empty)
PopRaises(rid) == rid = UNHASHABLE /\ pending_responses # {}

\* mutant of PopWaiter: the waiter is looked up with get, not popped
PopWaiter_Get(rid) == pending_responses

\* the map after pending_responses.pop(rid, None)
PopWaiter(rid) == pending_responses \ {rid}

\* resp, rid, _received_at; with pending_lock: waiter = pop(rid, None)
HR_Receive(rid, err) ==
    LET resp == [seq |-> nresp + 1, request_id |-> rid, error |-> err]
        found == rid \in pending_responses
    IN  /\ rthread.pc = "idle"
        /\ nresp < MaxResponses
        /\ rid \in PublishedIds \cup {FOREIGN, UNHASHABLE}
        /\ nresp' = nresp + 1
        /\ IF PopRaises(rid)
           THEN \* TypeError leaves the handler; _consumer_loop logs it
                /\ rthread' = IdleThread(NoEnv)
                /\ handler_errors' = handler_errors + 1
                /\ UNCHANGED pending_responses
           ELSE /\ pending_responses' = PopWaiter(rid)
                /\ rthread' = [IdleThread(resp) EXCEPT
                                  !.pc = IF found THEN "deliver" ELSE "lock",
                                  !.waiter = IF found THEN rid ELSE 0]
                /\ UNCHANGED handler_errors
        /\ UNCHANGED <<call, result, resp_queue, waited, published, matched>>
        /\ UNCHANGED <<pktVars, hubVars>>
        /\ UNCHANGED extVars

\* if waiter: waiter.put_nowait(resp), queue.Full passed over
HR_Deliver ==
    LET w == rthread.waiter
    IN  /\ rthread.pc = "deliver"
        /\ IF Len(resp_queue[w]) < RESP_QUEUE_MAXSIZE
           THEN /\ resp_queue' = [resp_queue EXCEPT ![w] = Append(@, rthread.item)]
                /\ matched' = [matched EXCEPT ![w] =
                                  [env |-> rthread.item, at |-> call[w].pc]]
           ELSE UNCHANGED <<resp_queue, matched>>
        /\ rthread' = [rthread EXCEPT !.pc = "lock"]
        /\ UNCHANGED <<call, result, pending_responses, waited, published>>
        /\ UNCHANGED <<nresp, handler_errors, pktVars, hubVars>>
        /\ UNCHANGED extVars

\* with sse_lock: dead = []
HR_Lock ==
    /\ rthread.pc = "lock"
    /\ FanoutLock("resp-consumer", "responses", rthread.item)
    /\ rthread' = [rthread EXCEPT !.pc = "fanout", !.idx = 1]
    /\ UNCHANGED <<cmdVars, nresp, handler_errors, pktVars>>
    /\ UNCHANGED extVars

\* for q in response_sse_subscribers: q.put_nowait(resp) / dead.append(q)
HR_Put ==
    /\ rthread.pc = "fanout"
    /\ rthread.idx <= Len(response_sse_subscribers)
    /\ LET q == response_sse_subscribers[rthread.idx]
       IN  /\ sub_queue' = Enqueue(q, rthread.item, "responses")
           /\ rthread' = PutNowait(rthread, q, "responses")
    /\ UNCHANGED <<sse_subscribers, response_sse_subscribers, sse_lock, stream,
                   yielded, publog, window>>
    /\ UNCHANGED <<cmdVars, nresp, handler_errors, pktVars>>
    /\ UNCHANGED extVars

\* for q in dead: response_sse_subscribers.remove(q); handler returns
HR_Unlock ==
    /\ rthread.pc = "fanout"
    /\ rthread.idx > Len(response_sse_subscribers)
    /\ RemoveDead("responses", rthread.dead)
    /\ rthread' = IdleThread(NoEnv)
    /\ UNCHANGED <<cmdVars, nresp, handler_errors, pktVars>>
    /\ UNCHANGED extVars

\* --------------------------------------------------------- _handle_packet
\* packet, headers, _received_at, timestamp; with sse_lock: dead = []
HP_Receive(ch) ==
    LET packet == [seq |-> npkt + 1, channel |-> ch]
    IN  /\ pthread[ch].pc = "idle"
        /\ npkt < MaxPackets
        /\ npkt' = npkt + 1
        /\ FanoutLock(ch, ch, packet)
        /\ pthread' = [pthread EXCEPT ![ch] =
                          [IdleThread(packet) EXCEPT !.pc = "fanout", !.idx = 1]]
        /\ UNCHANGED <<packet_queues, cmdVars, respVars>>
        /\ UNCHANGED extVars

\* for q in sse_subscribers[channel]: q.put_nowait(packet) / dead.append(q)
HP_Put(ch) ==
    /\ pthread[ch].pc = "fanout"
    /\ pthread[ch].idx <= Len(sse_subscribers[ch])
    /\ LET q == sse_subscribers[ch][pthread[ch].idx]
       IN  /\ sub_queue' = Enqueue(q, pthread[ch].item, ch)
           /\ pthread' = [pthread EXCEPT ![ch] = PutNowait(@, q, ch)]
    /\ UNCHANGED <<sse_subscribers, response_sse_subscribers, sse_lock, stream,
                   yielded, publog, window>>
    /\ UNCHANGED <<npkt, packet_queues, cmdVars, respVars>>
    /\ UNCHANGED extVars

\* mutant of HP_Unlock: the handler returns early when a subscriber was
\* found full, before the ring buffer part
HP_Unlock_ReturnOnDead(ch) ==
    /\ pthread[ch].pc = "fanout"
    /\ pthread[ch].idx > Len(sse_subscribers[ch])
    /\ RemoveDead(ch, pthread[ch].dead)
    /\ pthread' = [pthread EXCEPT ![ch] =
                      IF pthread[ch].dead # <<>> THEN IdleThread(NoPacket)
                      ELSE [@ EXCEPT !.pc = "ring", !.dead = <<>>, !.idx = 0,
                                     !.full = {}]]
    /\ UNCHANGED <<npkt, packet_queues, cmdVars, respVars>>
    /\ UNCHANGED extVars

\* for q in dead: sse_subscribers[channel].remove(q); the lock is released
HP_Unlock(ch) ==
    /\ pthread[ch].pc = "fanout"
    /\ pthread[ch].idx > Len(sse_subscribers[ch])
    /\ RemoveDead(ch, pthread[ch].dead)
    /\ pthread' = [pthread EXCEPT ![ch].pc = "ring", ![ch].dead = <<>>,
                                  ![ch].idx = 0, ![ch].full = {}]
    /\ UNCHANGED <<npkt, packet_queues, cmdVars, respVars>>
    /\ UNCHANGED extVars

\* mutant of RingInsert: no eviction, the insert into a full queue is lost
RingInsert_NoEvict(pq, packet) ==
    IF Len(pq) < MAX_QUEUE_SIZE THEN Append(pq, packet) ELSE pq

\* pq = packet_queues[channel]; if pq.full(): pq.get_nowait();
\* pq.put_nowait(packet), queue.Full passed over
RingInsert(pq, packet) ==
    LET kept == IF Len(pq) >= MAX_QUEUE_SIZE THEN Tail(pq) ELSE pq
    IN  IF Len(kept) < MAX_QUEUE_SIZE THEN Append(kept, packet) ELSE kept

\* the ring buffer part of _handle_packet; the handler returns
HP_Ring(ch) ==
    /\ pthread[ch].pc = "ring"
    /\ packet_queues' =
           [packet_queues EXCEPT ![ch] = RingInsert(@, pthread[ch].item)]
    /\ pthread' = [pthread EXCEPT ![ch] = IdleThread(NoPacket)]
    /\ UNCHANGED <<npkt, cmdVars, respVars, hubVars>>
    /\ UNCHANGED extVars

\* ------------------------------ _handle_packet: the record before fanout
\* the messages of a data topic: the value is a JSON object or not, its
\* "labels" member is absent, an object or something else, the Kafka
\* headers carry l.* labels or not, its "timestamp" member
PacketMessages ==
    {[is_dict |-> d, labels |-> l, header_labels |-> h, timestamp |-> t] :
        d \in BOOLEAN, l \in {"absent", "dict", "other"}, h \in BOOLEAN,
        t \in TimestampInputs}

\* packet = msg.value if isinstance(msg.value, dict) else {};
\* extra = _parse_packet_headers(msg)
IG_Receive(msg) ==
    /\ ingest.pc = "idle"
    /\ ingest' = [IdleIngest EXCEPT
                     !.pc = "merge",
                     !.ts_raw = IF msg.is_dict THEN msg.timestamp ELSE PyNone,
                     !.labels = IF msg.is_dict THEN msg.labels ELSE "absent",
                     !.header_labels = msg.header_labels]
    /\ UNCHANGED <<cmdVars, respVars, pktVars, hubVars, send_calls>>
    /\ UNCHANGED <<loop, polled, dispatched>>

\* if extra.get("_header_labels"):
\*     packet.setdefault("labels", {}).update(extra["_header_labels"])
\* a "labels" member that is no dict has no update: AttributeError
IG_Merge ==
    /\ ingest.pc = "merge"
    /\ ingest' = IF ingest.header_labels /\ ingest.labels = "other"
                 THEN [ingest EXCEPT !.pc = "raised", !.raised = "AttributeError"]
                 ELSE [ingest EXCEPT
                          !.pc = "stamp",
                          !.labels = IF ingest.header_labels THEN "dict" ELSE @]
    /\ UNCHANGED <<cmdVars, respVars, pktVars, hubVars, send_calls>>
    /\ UNCHANGED <<loop, polled, dispatched>>

\* packet["_envelope"] = ...; packet["_received_at"] = int(time.time() * 1000)
IG_Stamp(now) ==
    /\ ingest.pc = "stamp"
    /\ ingest' = [ingest EXCEPT !.pc = "normalize", !.received_at = now]
    /\ UNCHANGED <<cmdVars, respVars, pktVars, hubVars, send_calls>>
    /\ UNCHANGED <<loop, polled, dispatched>>

\* ts_raw = packet.get("timestamp") ... packet["timestamp"] = ...
IG_Normalize ==
    LET n == NormalizeTimestamp(ingest.ts_raw, ingest.received_at)
    IN  /\ ingest.pc = "normalize"
        /\ ingest' = IF n.raised = None
                     THEN [ingest EXCEPT !.pc = "fanout",
                                         !.timestamp = n.timestamp]
                     ELSE [ingest EXCEPT !.pc = "raised", !.raised = n.raised]
        /\ UNCHANGED <<cmdVars, respVars, pktVars, hubVars, send_calls>>
        /\ UNCHANGED <<loop, polled, dispatched>>

\* the record goes on to the fanout and the ring buffer, or the exception
\* goes to _consumer_loop; the thread takes the next message
IG_Return ==
    /\ ingest.pc \in {"fanout", "raised"}
    /\ ingest' = IdleIngest
    /\ UNCHANGED <<cmdVars, respVars, pktVars, hubVars, send_calls>>
    /\ UNCHANGED <<loop, polled, dispatched>>

\* ------------- _start_packet_consumer, _start_response_consumer, _consumer_loop
RECURSIVE SumOver(_, _)
SumOver(f, S) ==
    IF S = {} THEN 0
    ELSE LET x == CHOOSE y \in S : TRUE IN f[x] + SumOver(f, S \ {x})
TotalFaults == SumOver([l \in Loops |-> loop[l].faults], Loops)
TotalPolled == SumOver([l \in Loops |-> Len(polled[l])], Loops)

\* the batches a poll can return: up to MaxBatch messages; poison marks a
\* message on which the handler raises
Batches(first) ==
    {<<>>}
    \cup {<<[seq |-> first, poison |-> a]>> : a \in BOOLEAN}
    \cup {<<[seq |-> first, poison |-> a], [seq |-> first + 1, poison |-> b]>> :
            a \in BOOLEAN, b \in BOOLEAN}

\* except Exception: log.error(...); time.sleep(5) begins
Faulted(lp) == [lp EXCEPT !.pc = "backoff", !.batch = <<>>, !.faults = @ + 1]

\* consumer = _make_consumer(...): it returns a consumer, or raises
Connect(l, ok) ==
    /\ loop[l].pc = "connecting"
    /\ ~ok => TotalFaults < MaxFaults
    /\ loop' = [loop EXCEPT ![l] =
                    IF ok THEN [@ EXCEPT !.pc = "polling", !.consumer = "open"]
                    ELSE Faulted(@)]
    /\ UNCHANGED <<polled, dispatched>>
    /\ UNCHANGED <<cmdVars, respVars, pktVars, hubVars, send_calls, ingest>>

\* records = consumer.poll(timeout_ms=1000) returns a batch
Poll(l, batch) ==
    /\ loop[l].pc = "polling"
    /\ Len(batch) <= MaxBatch
    /\ TotalPolled + Len(batch) <= MaxMessages
    /\ loop' = [loop EXCEPT ![l].batch = batch,
                            ![l].pc = IF batch = <<>> THEN "polling" ELSE "dispatch"]
    /\ polled' = [polled EXCEPT ![l] = @ \o batch]
    /\ UNCHANGED dispatched
    /\ UNCHANGED <<cmdVars, respVars, pktVars, hubVars, send_calls, ingest>>

\* consumer.poll raises: the exception leaves _consumer_loop
PollFault(l) ==
    /\ loop[l].pc = "polling"
    /\ TotalFaults < MaxFaults
    /\ loop' = [loop EXCEPT ![l] = Faulted(@)]
    /\ UNCHANGED <<polled, dispatched>>
    /\ UNCHANGED <<cmdVars, respVars, pktVars, hubVars, send_calls, ingest>>

\* mutant of OnHandlerError: the handler's exception is not caught in the
\* loop and reaches the supervisor's except clause
OnHandlerError_Propagate(lp) == Faulted(lp)

\* except Exception as exc: log.warning("on_message error") and the for
\* loop goes on with the next message
OnHandlerError(lp) ==
    [lp EXCEPT !.batch = Tail(@), !.logged = @ + 1,
               !.pc = IF Len(lp.batch) = 1 THEN "polling" ELSE "dispatch"]

\* on_message(msg) returned: the for loop goes on with the next message
OnHandled(lp) ==
    [lp EXCEPT !.batch = Tail(@),
               !.pc = IF Len(lp.batch) = 1 THEN "polling" ELSE "dispatch"]

\* for msg in tp_records: try: on_message(msg) except Exception: ...
Dispatch(l) ==
    /\ loop[l].pc = "dispatch"
    /\ dispatched' = [dispatched EXCEPT ![l] = Append(@, Head(loop[l].batch))]
    /\ loop' = [loop EXCEPT ![l] = IF Head(loop[l].batch).poison
                                   THEN OnHandlerError(@) ELSE OnHandled(@)]
    /\ UNCHANGED polled
    /\ UNCHANGED <<cmdVars, respVars, pktVars, hubVars, send_calls, ingest>>

\* time.sleep(5) returns: the except clause is done, finally is next
Wake(l) ==
    /\ loop[l].pc = "backoff"
    /\ loop' = [loop EXCEPT ![l].pc = "finally"]
    /\ UNCHANGED <<polled, dispatched>>
    /\ UNCHANGED <<cmdVars, respVars, pktVars, hubVars, send_calls, ingest>>

\* mutant of NextAttempt: the supervisor gives up after two faults
NextAttempt_Ceiling(lp) ==
    IF lp.faults >= 2 THEN [lp EXCEPT !.pc = "stopped", !.consumer = None]
    ELSE [lp EXCEPT !.pc = "connecting", !.consumer = None]

\* the end of the while body: back to `consumer = None` and the connect
NextAttempt(lp) == [lp EXCEPT !.pc = "connecting", !.consumer = None]

\* if consumer: consumer.close(), an exception of close is passed over
CloseConsumer(lp) ==
    IF lp.consumer # None THEN [lp EXCEPT !.consumer = "closed"] ELSE lp

\* finally: the consumer, if one was made, is closed; the while loop
\* starts over
Finally(l) ==
    /\ loop[l].pc = "finally"
    /\ loop' = [loop EXCEPT ![l] = NextAttempt(CloseConsumer(@))]
    /\ UNCHANGED <<polled, dispatched>>
    /\ UNCHANGED <<cmdVars, respVars, pktVars, hubVars, send_calls, ingest>>

\* ------------------------------------ api_stream, api_stream_responses
\* sub_queue = queue.Queue(maxsize=...); with sse_lock: append(sub_queue)
Subscribe(s, feed) ==
    /\ stream[s].pc = "new"
    /\ IF s = 1 THEN TRUE ELSE stream[s - 1].pc # "new"
    /\ sse_lock = None
    /\ stream' = [stream EXCEPT ![s] = [pc |-> "open", feed |-> feed,
                                        last |-> None]]
    /\ IF feed = "responses"
       THEN /\ response_sse_subscribers' = Append(response_sse_subscribers, s)
            /\ UNCHANGED sse_subscribers
       ELSE /\ sse_subscribers' = [sse_subscribers EXCEPT ![feed] = Append(@, s)]
            /\ UNCHANGED response_sse_subscribers
    /\ window' = [window EXCEPT ![s] = [from |-> Len(publog[feed]), to |-> 0,
                                        by |-> None]]
    /\ UNCHANGED <<sse_lock, sub_queue, yielded, publog>>
    /\ UNCHANGED <<cmdVars, respVars, pktVars>>
    /\ UNCHANGED extVars

\* mutant of QueueGet: the newest item is taken (a LIFO queue)
QueueGet_Lifo(q) == [item |-> q[Len(q)], rest |-> SubSeq(q, 1, Len(q) - 1)]

\* queue.Queue.get on a non-empty queue: the oldest item, and the rest
QueueGet(q) == [item |-> Head(q), rest |-> Tail(q)]

\* generate(): sub_queue.get returns an item, which is yielded as data
Dequeue(s) ==
    /\ stream[s].pc = "open"
    /\ sub_queue[s] # <<>>
    /\ yielded' = [yielded EXCEPT ![s] = Append(@, QueueGet(sub_queue[s]).item)]
    /\ sub_queue' = [sub_queue EXCEPT ![s] = QueueGet(@).rest]
    /\ stream' = [stream EXCEPT ![s].last = "data"]
    /\ UNCHANGED <<sse_subscribers, response_sse_subscribers, sse_lock,
                   publog, window>>
    /\ UNCHANGED <<cmdVars, respVars, pktVars>>
    /\ UNCHANGED extVars

\* generate(): sub_queue.get(timeout=15) raises queue.Empty, the queue
\* having stayed empty, and ": heartbeat" is yielded
Heartbeat(s) ==
    /\ stream[s].pc = "open"
    /\ sub_queue[s] = <<>>
    /\ stream' = [stream EXCEPT ![s].last = "heartbeat"]
    /\ UNCHANGED <<sse_subscribers, response_sse_subscribers, sse_lock,
                   sub_queue, yielded, publog, window>>
    /\ UNCHANGED <<cmdVars, respVars, pktVars>>
    /\ UNCHANGED extVars

\* the client closes the stream: GeneratorExit at the yield
Close(s) ==
    /\ stream[s].pc = "open"
    /\ stream' = [stream EXCEPT ![s].pc = "closing"]
    /\ UNCHANGED <<sse_subscribers, response_sse_subscribers, sse_lock,
                   sub_queue, yielded, publog, window>>
    /\ UNCHANGED <<cmdVars, respVars, pktVars>>
    /\ UNCHANGED extVars

\* mutant of Unsubscribe: the first subscriber is removed, whoever it is
Unsubscribe_First(list, s) == IF list = <<>> THEN list ELSE Tail(list)

\* if sub_queue in subscribers: subscribers.remove(sub_queue)
Unsubscribe(list, s) == IF s \in Range(list) THEN Without(list, {s}) ELSE list

\* finally: with sse_lock: if sub_queue in subscribers: remove(sub_queue)
Cleanup(s) ==
    LET feed == stream[s].feed
    IN  /\ stream[s].pc = "closing"
        /\ sse_lock = None
        /\ stream' = [stream EXCEPT ![s].pc = "closed"]
        /\ IF feed = "responses"
           THEN /\ response_sse_subscribers' =
                       Unsubscribe(response_sse_subscribers, s)
                /\ UNCHANGED sse_subscribers
           ELSE /\ sse_subscribers' =
                       [sse_subscribers EXCEPT ![feed] = Unsubscribe(@, s)]
                /\ UNCHANGED response_sse_subscribers
        /\ window' = [window EXCEPT ![s] =
                         IF s \in Range(SubscribersOf(feed))
                         THEN [@ EXCEPT !.to = Len(publog[feed]),
                                        !.by = "cleanup"]
                         ELSE @]
        /\ UNCHANGED <<sse_lock, sub_queue, yielded, publog>>
        /\ UNCHANGED <<cmdVars, respVars, pktVars>>
        /\ UNCHANGED extVars

\* --------------------------------------------------------- specifications
\* the command side: api_command calls, the response consumer and the
\* response streams
NextCmd ==
    \/ \E c \in Calls, b \in Bodies : Start(c, b.target, b.command, b.wait)
    \/ \E c \in Calls, n \in 0..Len(CommandTopicOrder), raised \in BOOLEAN :
          Send(c, n, raised)
    \/ \E c \in Calls, n \in 0..Len(CommandTopicOrder) : SendRaises(c, n)
    \/ \E c \in Calls : ExceptPop(c)
    \/ \E c \in Calls : GetReturn(c)
    \/ \E c \in Calls : GetEmpty(c)
    \/ \E c \in Calls : TimeoutPop(c)
    \/ Tick
    \/ \E r \in 1..UNHASHABLE, e \in BOOLEAN : HR_Receive(r, e)
    \/ HR_Deliver
    \/ HR_Lock
    \/ HR_Put
    \/ HR_Unlock
    \/ \E s \in 1..CmdStreams : Subscribe(s, "responses")
    \/ \E s \in 1..CmdStreams : Dequeue(s)
    \/ \E s \in 1..CmdStreams : Close(s)
    \/ \E s \in 1..CmdStreams : Cleanup(s)

SpecCmd == Init /\ [][NextCmd]_vars

\* the fanout side with no api_command in flight: the packet consumers,
\* the response consumer (no waiter is registered, so HR_Deliver is not
\* reachable and is left out) and the streams of every feed
NextHub ==
    \/ \E ch \in Channels : npkt < HubPackets /\ HP_Receive(ch)
    \/ \E ch \in Channels : HP_Put(ch)
    \/ \E ch \in Channels : HP_Unlock(ch)
    \/ \E ch \in Channels : HP_Ring(ch)
    \/ HR_Receive(FOREIGN, FALSE)
    \/ HR_Lock
    \/ HR_Put
    \/ HR_Unlock
    \/ \E s \in Streams, f \in Feeds : Subscribe(s, f)
    \/ \E s \in Streams : Dequeue(s)
    \/ \E s \in Streams : Close(s)
    \/ \E s \in Streams : Cleanup(s)

SpecHub == Init /\ [][NextHub]_vars

\* the packet side alone, with the heartbeats of the streams: the packet
\* consumers and the streams of the channels
NextEvict ==
    \/ \E ch \in Channels : HP_Receive(ch)
    \/ \E ch \in Channels : HP_Put(ch)
    \/ \E ch \in Channels : HP_Unlock(ch)
    \/ \E ch \in Channels : HP_Ring(ch)
    \/ \E s \in Streams, ch \in Channels : Subscribe(s, ch)
    \/ \E s \in Streams : Dequeue(s)
    \/ \E s \in Streams : Heartbeat(s)
    \/ \E s \in Streams : Close(s)
    \/ \E s \in Streams : Cleanup(s)

SpecEvict == Init /\ [][NextEvict]_vars

\* the dispatch side while no response arrives: api_command calls up to
\* their return, and send_command calls
NextDispatch ==
    \/ \E c \in Calls, b \in Bodies : Start(c, b.target, b.command, b.wait)
    \/ \E c \in Calls, n \in 0..Len(CommandTopicOrder), raised \in BOOLEAN :
          Send(c, n, raised)
    \/ \E c \in Calls, n \in 0..Len(CommandTopicOrder) : SendRaises(c, n)
    \/ \E c \in Calls : ExceptPop(c)
    \/ \E c \in Calls : GetEmpty(c)
    \/ \E c \in Calls : TimeoutPop(c)
    \/ Tick
    \/ \E a \in SendArgs, n \in 0..Len(CommandTopicOrder), raised \in BOOLEAN :
          SendCommand(a.target, a.command, n, raised)

SpecDispatch == Init /\ [][NextDispatch]_vars

\* _handle_packet from the receipt of a message to the normalised record
NextIngest ==
    \/ \E m \in PacketMessages : IG_Receive(m)
    \/ IG_Merge
    \/ \E now \in ReceiptTimes : IG_Stamp(now)
    \/ IG_Normalize
    \/ IG_Return

SpecIngest == Init /\ [][NextIngest]_vars

\* the three consumer threads: supervisor loop and poll loop of each
NextSup ==
    \/ \E l \in Loops, ok \in BOOLEAN : Connect(l, ok)
    \/ \E l \in Loops, b \in Batches(TotalPolled + 1) : Poll(l, b)
    \/ \E l \in Loops : PollFault(l)
    \/ \E l \in Loops : Dispatch(l)
    \/ \E l \in Loops : Wake(l)
    \/ \E l \in Loops : Finally(l)

SpecSup == Init /\ [][NextSup]_vars

\* the threads keep running: a sleep ends, a finally clause and a connect
\* attempt are carried out, a batch in hand is worked off
FairSpecSup ==
    /\ SpecSup
    /\ \A l \in Loops :
          /\ WF_vars(\E ok \in BOOLEAN : Connect(l, ok))
          /\ WF_vars(Dispatch(l))
          /\ WF_vars(Wake(l))
          /\ WF_vars(Finally(l))

\* the request threads, the clock and the response consumer keep running
FairSpecCmd ==
    /\ SpecCmd
    /\ WF_vars(Tick)
    /\ \A c \in Calls :
          /\ WF_vars(GetReturn(c))
          /\ WF_vars(GetEmpty(c))
          /\ WF_vars(TimeoutPop(c))
          /\ WF_vars(ExceptPop(c))

\* ----------------------------------------------------------------- claims
\* a targeted, waited call whose publish and flush succeeded
Waited(c) == call[c].wait /\ call[c].target \in Channels
Returned(c) == call[c].pc = "done"
\* _handle_response put an envelope in the slot of call c before the
\* call's get raised queue.Empty
DeliveredInTime(c) == matched[c].at = "wait"

\* C1: for a targeted command with wait=true, when _handle_response puts a
\* response with the call's request_id in the waiter's slot before the
\* call's timed get has expired, the call returns exactly that envelope
\* (status 200, same request_id), and once it has returned
\* pending_responses does not contain the request_id.
C1_ResponseReturned ==
    \A c \in Calls :
        (Returned(c) /\ DeliveredInTime(c)) =>
            /\ Waited(c)
            /\ result[c].status = 200
            /\ result[c].request_id = c
            /\ result[c].response = matched[c].env
            /\ result[c].response.request_id = c
            /\ c \notin pending_responses
C1_Witness ==
    \E c \in Calls :
        /\ Returned(c) /\ DeliveredInTime(c)
        /\ result[c].response.seq = 2
        /\ nresp = 2

\* C2: a targeted, waited call for which no response is delivered
\* eventually returns; it then reports a timeout (504), not before the
\* deadline, and pending_responses does not contain its request_id.
C2_TimeoutReturned ==
    \A c \in Calls :
        (call[c].pc = "wait") ~>
            (/\ Returned(c)
             /\ c \notin pending_responses
             /\ matched[c] = NoMatch =>
                   /\ result[c].status = 504
                   /\ result[c].response = NoEnv
                   /\ waited[c] >= RESPONSE_TIMEOUT_S)
C2_Witness ==
    \E c \in Calls :
        /\ Returned(c) /\ Waited(c)
        /\ matched[c] = NoMatch
        /\ result[c].status = 504
        /\ c \notin pending_responses

\* C3: a call with wait=false or with target "*" never has an entry in
\* pending_responses, never blocks in the timed get, and when the send
\* succeeds returns ok with its request_id and no response.
C3_NoWaiter ==
    \A c \in Calls :
        (call[c].pc # "new" /\ (~call[c].wait \/ call[c].target = "*")) =>
            /\ c \notin pending_responses
            /\ call[c].pc \in {"send", "except", "done"}
            /\ waited[c] = 0
            /\ Returned(c) =>
                  \/ result[c].status = 500
                  \/ /\ result[c].status = 200
                     /\ result[c].ok
                     /\ result[c].request_id = c
                     /\ result[c].response = NoEnv
C3_Witness ==
    \E c \in Calls :
        /\ Returned(c)
        /\ call[c].wait /\ call[c].target = "*"
        /\ result[c].status = 200
        /\ \A t \in Topics : published[t] # <<>>

\* C4: when the send or the flush raises KafkaError the call goes straight
\* to its return: it returns status 500 with the error, it never blocks in
\* the timed get, and pending_responses does not contain its request_id
\* afterwards.
C4_DispatchError ==
    /\ [][\A c \in Calls :
             (call[c].pc = "except" /\ call'[c] # call[c]) =>
                 /\ call'[c].pc = "done"
                 /\ result'[c].status = 500
                 /\ result'[c].error = "KafkaError"
                 /\ c \notin pending_responses']_vars
    /\ [](\A c \in Calls :
             (call[c].pc = "except" \/ result[c].error = "KafkaError") =>
                 /\ waited[c] = 0
                 /\ call[c].pc \in {"except", "done"}
                 /\ Returned(c) => c \notin pending_responses)
C4_Witness ==
    \E c \in Calls :
        /\ Returned(c) /\ Waited(c)
        /\ result[c].status = 500
        /\ result[c].error = "KafkaError"
        /\ c \notin pending_responses

\* the stream s has got the item: it is in its queue or already sent
HasItem(s, item) == item \in Range(sub_queue[s]) \cup Range(yielded[s])

\* C5: every envelope _handle_response receives is handled without an
\* error and is published to the response feed: when the handler is back
\* every envelope received has been published, and at the end of the loop
\* every registered response-stream subscriber not found full has it.
C5_EveryEnvelopeBroadcast ==
    /\ handler_errors = 0
    /\ rthread.pc = "idle" => Len(publog["responses"]) = nresp
    /\ (rthread.pc = "fanout" /\ rthread.idx > Len(response_sse_subscribers)) =>
           \A q \in Range(response_sse_subscribers) :
               q \in rthread.full \/ HasItem(q, rthread.item)

\* C10: a response whose error field is populated, delivered to the
\* waiter in time, is returned as a correlation (status 200, ok false,
\* that envelope), never as a timeout or a dispatch error; a call returns
\* the timeout only when no envelope had been put in its slot before its
\* get raised queue.Empty.
C10_NodeErrorCorrelated ==
    \A c \in Calls :
        Returned(c) =>
            /\ (DeliveredInTime(c) /\ matched[c].env.error) =>
                  /\ result[c].status = 200
                  /\ ~result[c].ok
                  /\ result[c].response = matched[c].env
            /\ (DeliveredInTime(c) /\ ~matched[c].env.error) => result[c].ok
            /\ result[c].status = 504 => ~DeliveredInTime(c)
C10_Witness ==
    \E c \in Calls :
        /\ Returned(c) /\ DeliveredInTime(c)
        /\ matched[c].env.error
        /\ result[c].status = 200 /\ ~result[c].ok
\* the last n elements of seq
LastN(seq, n) ==
    IF Len(seq) <= n THEN seq ELSE SubSeq(seq, Len(seq) - n + 1, Len(seq))

\* C6: a channel's ring buffer never holds more than MAX_QUEUE_SIZE
\* records, and between two _handle_packet calls it holds exactly the last
\* MAX_QUEUE_SIZE records handled for the channel (all of them while there
\* are fewer), in arrival order.
C6_RingBuffer ==
    \A ch \in Channels :
        /\ Len(packet_queues[ch]) <= MAX_QUEUE_SIZE
        /\ pthread[ch].pc = "idle" =>
              packet_queues[ch] = LastN(publog[ch], MAX_QUEUE_SIZE)
C6_Witness ==
    \E ch \in Channels :
        /\ pthread[ch].pc = "idle"
        /\ Len(publog[ch]) > MAX_QUEUE_SIZE
        /\ Len(packet_queues[ch]) = MAX_QUEUE_SIZE
        /\ Head(packet_queues[ch]).seq = 2

\* the publishing threads and the feed each publishes to
Publishing(th) == th.pc = "fanout"
\* th is at the end of a publish to feed: the loop over the list is done
\* and the next step removes the dead queues and releases the lock
AtEndOfPublish(th, feed) ==
    Publishing(th) /\ th.idx > Len(SubscribersOf(feed))
\* what a step of a publish to feed must do, from thread record th to th2
FanoutStep(th, th2, feed) ==
    LET list == SubscribersOf(feed)
    IN  /\ (Publishing(th) /\ th.idx <= Len(list) /\ th2 # th) =>
              LET q == list[th.idx]
              IN  /\ IsFull(q, feed) <=> q \in th2.full
                  /\ ~IsFull(q, feed) => sub_queue'[q] = Append(sub_queue[q], th.item)
                  /\ SubscribersOf(feed)' = list
        /\ (AtEndOfPublish(th, feed) /\ th2 # th) =>
              \A q \in Range(list) :
                  /\ q \in th.full => q \notin Range(SubscribersOf(feed)')
                  /\ q \notin th.full =>
                        /\ q \in Range(SubscribersOf(feed)')
                        /\ HasItem(q, th.item)

\* C7: in a publish of _handle_packet or _handle_response a queue is
\* found full exactly when it is full at its put_nowait; a queue found
\* full is not in the subscriber list when the publish ends, and every
\* other queue of the list has got the item and is still in the list.
C7_FullSubscriberDropped ==
    [][/\ FanoutStep(rthread, rthread', "responses")
       /\ \A ch \in Channels : FanoutStep(pthread[ch], pthread'[ch], ch)]_vars
C7_Witness ==
    /\ AtEndOfPublish(rthread, "responses")
    /\ rthread.full # {}
    /\ Range(response_sse_subscribers) \ rthread.full # {}
    /\ \E ch \in Channels : Len(publog[ch]) > STREAM_QUEUE_MAXSIZE

RECURSIVE IsSubseq(_, _)
\* whether a is b with some elements left out
IsSubseq(a, b) ==
    IF a = <<>> THEN TRUE
    ELSE IF b = <<>> THEN FALSE
    ELSE IF Head(a) = Head(b) THEN IsSubseq(Tail(a), Tail(b))
    ELSE IsSubseq(a, Tail(b))

Registered(s) ==
    stream[s].pc # "new" /\ s \in Range(SubscribersOf(stream[s].feed))
\* the items published to the feed of s while s was in its subscriber list
PublishedWhileRegistered(s) ==
    LET log == publog[stream[s].feed]
    IN  SubSeq(log, window[s].from + 1,
               IF Registered(s) THEN Len(log) ELSE window[s].to)

\* C8: what a stream has dequeued and what is left in its queue are,
\* together and in this order, the items published to its feed while it
\* was registered with some left out: no item twice, none out of order,
\* none of another feed or of another time.
C8_SubscriberFifo ==
    \A s \in Streams :
        stream[s].pc # "new" =>
            IsSubseq(yielded[s] \o sub_queue[s], PublishedWhileRegistered(s))
C8_Witness ==
    \E s \in Streams :
        /\ Len(yielded[s]) = 2
        /\ yielded[s][1].seq = 2 /\ yielded[s][2].seq = 3
        /\ window[s].by = "cleanup"

\* C9: once the cleanup of a stream has run its queue is in no subscriber
\* list and no publish puts an item in it; the cleanup removes its own
\* queue and nothing else, and removes nothing when a publish had already
\* removed the queue.
C9_CleanupUnregisters ==
    /\ [](\A s \in Streams :
             stream[s].pc = "closed" =>
                 \A f \in Feeds : s \notin Range(SubscribersOf(f)))
    /\ [][\A s \in Streams :
             /\ stream[s].pc = "closed" => sub_queue'[s] = sub_queue[s]
             /\ (stream[s].pc = "closing" /\ stream'[s].pc = "closed") =>
                   \A f \in Feeds :
                       /\ Range(SubscribersOf(f)') = Range(SubscribersOf(f)) \ {s}
                       /\ IsSubseq(SubscribersOf(f)', SubscribersOf(f))]_vars
C9_Witness ==
    \E s, o \in Streams :
        /\ stream[s].pc = "closed"
        /\ window[s].by = "publish"
        /\ stream[o].feed = stream[s].feed
        /\ Registered(o)
        /\ sub_queue[o] # <<>>

\* an envelope of a command off the allow-list is on a command topic
PublishedOffList ==
    \E t \in Topics : \E i \in 1..Len(published[t]) :
        published[t][i].command \notin VALID_COMMANDS

\* C11: a send whose command is not in the allow-list publishes no envelope
\* to any command topic, registers no waiter and ends in a validation
\* error, in api_command and in send_command: no envelope on a command
\* topic carries a command off the list, an api_command call with such a
\* command returns 400 with no waiter, and a send_command call with such a
\* command returns no request_id.
C11_AllowListEnforced ==
    /\ ~PublishedOffList
    /\ \A c \in Calls :
          (call[c].pc # "new" /\ call[c].command \notin VALID_COMMANDS) =>
              /\ Returned(c) /\ result[c].status = 400
              /\ c \notin pending_responses
    /\ \A i \in 1..Len(send_calls) :
          send_calls[i].command \notin VALID_COMMANDS =>
              send_calls[i].returned = None

\* the integer part of a timestamp that is a finite number or a string
\* float() reads as one
IsNumeric(x) == x.type \in {"int", "float", "str"} /\ FloatOfStr(x).kind = "finite"
Seconds(x) == IntOfFloat(FloatOfStr(x)).value

\* C12: when the timestamp part of _handle_packet has run, a numeric
\* timestamp (number or numeric string) below the threshold has been
\* multiplied by 1000, one at or above it is unchanged, a missing or
\* unparseable one has been replaced by the receipt time; and the
\* normalisation never leaves the handler with an exception.
C12_TimestampNormalized ==
    /\ ingest.pc = "fanout" =>
          IF IsNumeric(ingest.ts_raw)
          THEN IF Seconds(ingest.ts_raw) < SECONDS_THRESHOLD
               THEN ingest.timestamp = Seconds(ingest.ts_raw) * MS_PER_SECOND
               ELSE ingest.timestamp = Seconds(ingest.ts_raw)
          ELSE ingest.timestamp = ingest.received_at
    /\ ingest.pc = "raised" => ingest.raised = "AttributeError"

\* the resp-consumer thread takes, in this step, a response for call c
ReceivesResponseFor(c) ==
    /\ rthread.pc = "idle"
    /\ nresp' = nresp + 1
    /\ rthread'.item.request_id = c

\* C13: a targeted, waited call is in pending_responses in the state its
\* envelope is published from; and the first response with its request_id
\* that _handle_response takes while the call has not itself removed the
\* waiter (it waits, or has not yet run the pop of its timeout or error
\* branch) finds the waiter and puts the envelope in the call's slot.
C13_RegisteredBeforePublish ==
    [][\A c \in Calls :
          /\ (c \notin PublishedIds /\ c \in PublishedIds'
               /\ call[c].wait /\ call[c].target # "*") =>
                 c \in pending_responses
          /\ (ReceivesResponseFor(c) /\ Waited(c) /\ matched[c] = NoMatch
               /\ call[c].pc \in {"wait", "timeout", "except"}) =>
                 /\ rthread'.pc = "deliver"
                 /\ rthread'.waiter = c
          /\ (rthread.pc = "deliver" /\ rthread.waiter = c
               /\ rthread'.pc # "deliver") =>
                 resp_queue'[c] = <<rthread.item>>]_vars
C13_Witness ==
    \E c \in Calls :
        /\ rthread.pc = "lock"
        /\ rthread.item.request_id = c
        /\ matched[c].env = rthread.item
        /\ call[c].pc = "wait" /\ waited[c] = 0
        /\ resp_queue[c] = <<rthread.item>>

\* C14: a waiter gets at most one envelope: the slot is empty whenever
\* _handle_response is about to put into it and never holds more than one
\* envelope, the envelope delivered to a call never changes, and a
\* response whose request_id has already been delivered takes the
\* not-found path.
C14_AtMostOneDelivery ==
    /\ [](\A c \in Calls :
             /\ Len(resp_queue[c]) <= RESP_QUEUE_MAXSIZE
             /\ (rthread.pc = "deliver" /\ rthread.waiter = c) =>
                    /\ resp_queue[c] = <<>>
                    /\ matched[c] = NoMatch
                    /\ c \notin pending_responses)
    /\ [][\A c \in Calls :
             /\ matched[c] # NoMatch => matched'[c] = matched[c]
             /\ (ReceivesResponseFor(c) /\ matched[c] # NoMatch) =>
                    /\ rthread'.pc = "lock"
                    /\ rthread'.waiter = 0]_vars
C14_Witness ==
    \E c \in Calls :
        /\ matched[c].env.seq = 1
        /\ resp_queue[c] = <<matched[c].env>>
        /\ rthread.pc = "lock"
        /\ rthread.item.seq = 2
        /\ rthread.item.request_id = c

\* C20: whenever _handle_response has removed the waiter of a call that
\* went into its timed wait and has put an envelope in its slot, the call
\* returns that envelope and not a timeout.
C20_NoResponseLost ==
    \A c \in Calls :
        (Returned(c) /\ matched[c] # NoMatch /\ result[c].status # 500) =>
            /\ result[c].status = 200
            /\ result[c].response = matched[c].env

\* C15: a handler that raises on a message does not stop _consumer_loop:
\* the step that dispatches such a message logs it and leaves the thread
\* in the poll loop with the same open consumer and the rest of the batch
\* in hand, and no fault is counted; the messages given to the handler
\* followed by the batch in hand are always the messages polled, so no
\* message of the batch or of a later poll is skipped.
C15_HandlerErrorContained ==
    /\ [](\A l \in Loops : dispatched[l] \o loop[l].batch = polled[l])
    /\ [][\A l \in Loops :
             (loop[l].pc = "dispatch" /\ Head(loop[l].batch).poison
              /\ loop'[l] # loop[l]) =>
                 /\ loop'[l].pc \in {"dispatch", "polling"}
                 /\ loop'[l].batch = Tail(loop[l].batch)
                 /\ loop'[l].consumer = "open"
                 /\ loop'[l].faults = loop[l].faults
                 /\ loop'[l].logged = loop[l].logged + 1]_vars
C15_Witness ==
    \E l \in Loops :
        /\ Len(dispatched[l]) = 3
        /\ dispatched[l][1].poison
        /\ ~dispatched[l][2].poison
        /\ polled[l] = dispatched[l]
        /\ loop[l].logged = 1
        /\ loop[l].faults = 0

\* C16: a supervisor loop has no terminal state: it is always at one of
\* the steps of its while body, a loop that faulted (while connecting or
\* while polling, for the first time or again) is eventually back at the
\* connect, and a loop at the connect eventually makes the attempt.
C16_NoTerminalState ==
    \A l \in Loops :
        /\ [](loop[l].pc \in {"connecting", "polling", "dispatch", "backoff",
                               "finally"})
        /\ (loop[l].pc \in {"backoff", "finally"}) ~> (loop[l].pc = "connecting")
        /\ (loop[l].pc = "connecting") ~> (loop[l].pc \in {"polling", "backoff"})
C16_Witness ==
    \E l \in Loops :
        /\ loop[l].faults = MaxFaults
        /\ loop[l].pc = "polling"
        /\ loop[l].consumer = "open"

\* C18: after a connection-level fault the subscription is closed before
\* the loop backs off: a loop in its backoff never has its consumer open.
C18_ClosedBeforeBackoff ==
    \A l \in Loops : loop[l].pc = "backoff" => loop[l].consumer # "open"

\* C17: every record _handle_packet has offered to the channel's
\* subscribers goes on to the ring buffer part with the same record, and
\* the ring buffer changes only there, by the insertion of that record at
\* the end with the oldest dropped when the buffer was full, whatever the
\* subscriber list and the subscriber queues are; between two handler
\* calls the buffer ends with the record last offered.
C17_RingIndependent ==
    /\ [](\A ch \in Channels :
             /\ pthread[ch].pc \in {"fanout", "ring"} =>
                    /\ pthread[ch].item = publog[ch][Len(publog[ch])]
                    /\ pthread[ch].item \notin Range(packet_queues[ch])
             /\ (pthread[ch].pc = "idle" /\ publog[ch] # <<>>) =>
                    packet_queues[ch][Len(packet_queues[ch])] =
                        publog[ch][Len(publog[ch])])
    /\ [][\A ch \in Channels :
             /\ (pthread[ch].pc = "fanout" /\ pthread'[ch].pc # "fanout") =>
                    /\ pthread'[ch].pc = "ring"
                    /\ pthread'[ch].item = pthread[ch].item
             /\ packet_queues'[ch] # packet_queues[ch] => pthread[ch].pc = "ring"
             /\ (pthread[ch].pc = "ring" /\ pthread'[ch].pc # "ring") =>
                    packet_queues'[ch] =
                        LastN(Append(packet_queues[ch], pthread[ch].item),
                              MAX_QUEUE_SIZE)]_vars
C17_Witness ==
    \E ch \in Channels, s \in Streams :
        /\ stream[s].feed = ch
        /\ window[s].by = "publish"
        /\ pthread[ch].pc = "idle"
        /\ publog[ch][window[s].to] \in Range(packet_queues[ch])
        /\ ~HasItem(s, publog[ch][window[s].to])

\* the thread `me`, publishing to feed with thread record th, is at a
\* put_nowait of its loop over the subscriber list
AtPut(th, feed) == Publishing(th) /\ th.idx <= Len(SubscribersOf(feed))

\* C19: sse_lock is not held across a delivery attempt: a producer thread
\* that is at a put_nowait to a subscriber queue, in _handle_packet or in
\* _handle_response, does not hold sse_lock.
C19_LockNotHeldAcrossPut ==
    /\ AtPut(rthread, "responses") => sse_lock # "resp-consumer"
    /\ \A ch \in Channels : AtPut(pthread[ch], ch) => sse_lock # ch

\* the api_command calls in progress
InProgress == {c \in Calls : call[c].pc \notin {"new", "done"}}

\* C21: no waiter leaks: once a call has finished, on whatever exit path,
\* pending_responses does not contain its request_id, and
\* pending_responses holds no more entries than there are calls in
\* progress.
C21_NoWaiterLeak ==
    /\ \A c \in Calls : Returned(c) => c \notin pending_responses
    /\ pending_responses \subseteq InProgress
    /\ Cardinality(pending_responses) <= Cardinality(InProgress)

\* a publish found the queue of stream s full and removed it
Evicted(s) == window[s].by = "publish"
\* what the stream has got: the items it sent and those still in its queue
Received(s) == yielded[s] \o sub_queue[s]

\* C22: once a publish has removed the queue of a stream, the queue is in
\* no subscriber list again; the stream gets no further item: what it has
\* got stays what it was, all of it published before the item that found
\* the queue full, and draining the queue changes nothing of that; the
\* eviction leaves the stream as it is, an open stream ends only by the
\* client's close, and while it is open with its queue drained it goes on
\* sending heartbeats.
C22_EvictionPermanent ==
    /\ [](\A s \in Streams :
             Evicted(s) =>
                 /\ \A f \in Feeds : s \notin Range(SubscribersOf(f))
                 /\ \A i \in 1..Len(Received(s)) :
                        Received(s)[i].seq < publog[stream[s].feed][window[s].to].seq
                 /\ (stream[s].pc = "open" /\ sub_queue[s] = <<>>) =>
                        ENABLED Heartbeat(s))
    /\ [][\A s \in Streams :
             /\ Evicted(s) => /\ Evicted(s)'
                              /\ Received(s)' = Received(s)
             /\ (~Evicted(s) /\ Evicted(s)') => stream'[s] = stream[s]
             /\ (stream[s].pc = "open" /\ stream'[s].pc # "open") =>
                    stream'[s].pc = "closing"]_vars
C22_Witness ==
    \E s \in Streams :
        /\ Evicted(s)
        /\ stream[s].pc = "open"
        /\ stream[s].last = "heartbeat"
        /\ sub_queue[s] = <<>>
        /\ Len(yielded[s]) = STREAM_QUEUE_MAXSIZE
        /\ Len(publog[stream[s].feed]) > window[s].to
        /\ pthread[stream[s].feed].pc = "idle"

====
